---- MODULE Spec2Model ----
(***************************************************************************)
(* Model of the ArcGIS map example: the App root component's view-ready    *)
(* handler (src/src/app/app.ts) and the MapService it delegates to         *)
(* (src/src/app/services/map.ts).                                          *)
(*                                                                         *)
(* MapView objects are identified by the integers 1..4, one per shape of   *)
(* view the service can meet; 0 stands for undefined/null.  A view         *)
(* delivered by a notification is a MapView or undefined, the type the     *)
(* handler casts it to.  The page (the two Calcite elements the service    *)
(* looks up with document.querySelector) and the map engine (the graphics  *)
(* collections, the popups, the layerview-create events and the timer      *)
(* queue) are the environment the handlers act on.                         *)
(*                                                                         *)
(* Spec runs every handler.  SpecPage, SpecLifecycle, SpecUtilities and    *)
(* SpecFallback run the handlers of one concern each: the header is read   *)
(* by no loader handler, and the marker and navigation utilities touch     *)
(* only the views' graphics and popups, which no other handler reads.      *)
(***************************************************************************)
EXTENDS Integers, Sequences, FiniteSets, TLC

\* ------------------------------------------------------------- bounds
MaxAccepted == 2   \* ready notifications carrying a view that are handled
MaxSubs     == 2   \* layerview-create listeners registered at one time
MaxGraphics == 2   \* graphics held by the views' collections together

\* ---------------------------------------------------- program constants
DefaultZoom == 10      \* goTo(center, zoom = 10)
TimeoutMs   == 5000    \* setTimeout(..., 5000)

NoView  == 0                 \* undefined / null where a MapView is expected
Undef   == "undefined"       \* undefined where a string is expected
Handles == 1..4
Views   == Handles \cup {NoView}

\* ------------------------------------------------ the hosted MapViews
\* What a MapView exposes to the service: view.map (a WebMap whose
\* portalItem may be missing) and view.popup.  The shapes cover every link
\* of the chain the service reads with ?. being absent.
NoItem == [present |-> FALSE, title |-> Undef, snippet |-> Undef,
           thumbnailUrl |-> Undef, itemPageUrl |-> Undef]

PortalItemOf(h) ==
    CASE h = 1 -> [present |-> TRUE, title |-> "Parks", snippet |-> Undef,
                   thumbnailUrl |-> "t.png", itemPageUrl |-> "p.html"]
      [] h = 2 -> [present |-> TRUE, title |-> "Roads", snippet |-> "Road map",
                   thumbnailUrl |-> "r.png", itemPageUrl |-> "r.html"]
      [] OTHER -> NoItem

MapOf(h) ==
    IF h = 4 THEN [present |-> FALSE, portalItem |-> NoItem]
             ELSE [present |-> TRUE, portalItem |-> PortalItemOf(h)]

HasPopup(h) == h \in {1, 3}

\* ------------------------------------------------------------- inputs
\* A ready notification: event.detail and event.target may each be missing,
\* and each may or may not carry a view.
Slots == {[present |-> FALSE, view |-> NoView]}
            \cup {[present |-> TRUE, view |-> v] : v \in Views}
Events == [detail : Slots, target : Slots]

Lons    == {-1172}      \* tenths of a degree: -117.2
Lats    == {340}        \* tenths of a degree: 34.0
Titles  == {"Camp"}
Centers == {<<10, 20>>}
Zooms   == {5}
Reasons == {"manual"}

VARIABLES
    _view,          \* MapService._view
    navLogo,        \* the <calcite-navigation-logo> element, if rendered
    loader,         \* the <calcite-loader> element, if rendered
    log,            \* reasons of the "Loader hidden (...)" console lines
    graphics,       \* view.graphics of every MapView
    popup,          \* what each view's popup was last opened with
    subs,           \* layerview-create listeners registered, oldest first
    timers,         \* setTimeout callbacks scheduled and not yet run
    timersFired,    \* setTimeout callbacks that have run
    accepted,       \* ready notifications that carried a view
    last            \* the handler that ran last: its input, calls and outcome

vars == <<_view, navLogo, loader, log, graphics, popup, subs,
          timers, timersFired, accepted, last>>

\* ===================================================== MapService
setViewKeepFirst(cur, view) == IF cur = NoView THEN view ELSE cur

\* setView(view): this._view = view.
setView(cur, view) == view

\* get view(): the stored MapView, or undefined.
view == _view

\* The element as Calcite renders it, before the service touches it.
FreshLogo   == [present |-> TRUE, heading |-> Undef, description |-> Undef,
                thumbnail |-> Undef, href |-> Undef, label |-> Undef]
AbsentLogo  == [FreshLogo EXCEPT !.present = FALSE]
FreshLoader  == [present |-> TRUE, hidden |-> FALSE]
AbsentLoader == [present |-> FALSE, hidden |-> FALSE]

SnippetRaw(snippet) == snippet

\* portalItem.snippet ?? ''
SnippetOrEmpty(snippet) == IF snippet = Undef THEN "" ELSE snippet

\* The five assignments to the navigation logo, in source order.
WriteHeader(logo, portalItem) ==
    LET l1 == [logo EXCEPT !.heading     = portalItem.title]
        l2 == [l1   EXCEPT !.description = SnippetOrEmpty(portalItem.snippet)]
        l3 == [l2   EXCEPT !.thumbnail   = portalItem.thumbnailUrl]
        l4 == [l3   EXCEPT !.href        = portalItem.itemPageUrl]
        l5 == [l4   EXCEPT !.label       = "Thumbnail of map"]
    IN  l5

updateHeaderClearing(v, logo) ==
    LET portalItem == IF v # NoView /\ MapOf(v).present THEN MapOf(v).portalItem
                                                        ELSE NoItem
    IN  IF ~logo.present THEN logo
        ELSE IF ~portalItem.present
             THEN [logo EXCEPT !.heading = Undef, !.description = Undef,
                               !.thumbnail = Undef, !.href = Undef, !.label = Undef]
        ELSE WriteHeader(logo, portalItem)

updateHeaderOnce(v, logo) ==
    LET portalItem == IF v # NoView /\ MapOf(v).present THEN MapOf(v).portalItem
                                                        ELSE NoItem
    IN  IF ~portalItem.present \/ ~logo.present \/ logo.heading # Undef
        THEN logo
        ELSE WriteHeader(logo, portalItem)

updateHeaderLabelFirst(v, logo) ==
    LET portalItem == IF v # NoView /\ MapOf(v).present THEN MapOf(v).portalItem
                                                        ELSE NoItem
    IN  IF ~logo.present THEN logo
        ELSE IF ~portalItem.present THEN [logo EXCEPT !.label = "Thumbnail of map"]
        ELSE WriteHeader(logo, portalItem)

\* updateHeaderFromPortalItem(): the navigation logo after the call, given
\* the stored view v and the element as querySelector finds it.
updateHeaderFromPortalItem(v, logo) ==
    LET webmap     == IF v = NoView THEN [present |-> FALSE, portalItem |-> NoItem]
                                    ELSE MapOf(v)
        portalItem == IF webmap.present THEN webmap.portalItem ELSE NoItem
    IN  IF ~portalItem.present \/ ~logo.present
        THEN logo
        ELSE WriteHeader(logo, portalItem)

hideLoaderNoElementCheck(ld, lg, reason) ==
    IF ~ld.hidden
    THEN [loader |-> [ld EXCEPT !.hidden = TRUE],
          log    |-> Append(lg, IF reason = Undef THEN "view ready" ELSE reason)]
    ELSE [loader |-> ld, log |-> lg]

hideLoaderUnchecked(ld, lg, reason) ==
    IF ld.present
    THEN [loader |-> [ld EXCEPT !.hidden = TRUE],
          log    |-> Append(lg, IF reason = Undef THEN "view ready" ELSE reason)]
    ELSE [loader |-> ld, log |-> lg]

hideLoaderLogsAlways(ld, lg, reason) ==
    IF ld.present
    THEN [loader |-> [ld EXCEPT !.hidden = TRUE], log |-> Append(lg, "again")]
    ELSE [loader |-> ld, log |-> lg]

hideLoaderToggle(ld, lg, reason) ==
    IF ld.present
    THEN [loader |-> [ld EXCEPT !.hidden = ~@],
          log    |-> IF ld.hidden THEN lg
                     ELSE Append(lg, IF reason = Undef THEN "view ready" ELSE reason)]
    ELSE [loader |-> ld, log |-> lg]

\* reason = 'view ready'
ReasonOr(reason) == IF reason = Undef THEN "view ready" ELSE reason

\* hideLoader(reason): the loader element and the console after the call.
hideLoader(ld, lg, reason) ==
    IF ld.present /\ ~ld.hidden
    THEN [loader |-> [ld EXCEPT !.hidden = TRUE], log |-> Append(lg, ReasonOr(reason))]
    ELSE [loader |-> ld, log |-> lg]

\* view.on('layerview-create', cb), as a call made on view v.
OnLayerViewCreate(v) ==
    [fn |-> "on", view |-> v, arg |-> [type |-> "layerview-create"]]

hideLoaderOnFirstLayerCreateReplacing(v, ss) ==
    IF v = NoView THEN [subs |-> ss, calls |-> <<>>]
    ELSE [subs  |-> <<[view |-> v, calls |-> 0]>>,
          calls |-> <<OnLayerViewCreate(v)>>]

hideLoaderOnFirstLayerCreateUnguarded(v, ss) ==
    [subs  |-> Append(ss, [view |-> v, calls |-> 0]),
     calls |-> <<OnLayerViewCreate(v)>>]

\* hideLoaderOnFirstLayerCreate(): this._view.on('layerview-create', cb)
\* registers one more listener on the stored view.  The listeners after the
\* call and the calls made on the view.
hideLoaderOnFirstLayerCreate(v, ss) ==
    IF v = NoView THEN [subs |-> ss, calls |-> <<>>]
    ELSE [subs  |-> Append(ss, [view |-> v, calls |-> 0]),
          calls |-> <<OnLayerViewCreate(v)>>]

AfterCallbackKeep(sub) == <<sub>>

\* What is left of a listener's registration once its callback has run:
\* handle.remove() takes it off the view.  calls counts the callback's runs.
AfterCallback(sub) == <<>>

\* The view emits layerview-create: every listener still registered on view
\* h runs, in registration order; each calls hideLoader('layerview-create')
\* and removes itself.
RECURSIVE Emit(_, _, _)
Emit(h, todo, st) ==
    IF todo = <<>> THEN st
    ELSE LET sub == Head(todo)
         IN  IF sub.view = h
             THEN LET r   == hideLoader(st.loader, st.log, "layerview-create")
                      run == [sub EXCEPT !.calls = @ + 1]
                  IN  Emit(h, Tail(todo),
                           [subs   |-> st.subs \o AfterCallback(run),
                            ran    |-> Append(st.ran, run),
                            loader |-> r.loader,
                            log    |-> r.log])
             ELSE Emit(h, Tail(todo), [st EXCEPT !.subs = Append(@, sub)])

\* zoom = 10
ZoomOr(zoom) == IF zoom = <<>> THEN DefaultZoom ELSE zoom[1]

\* goTo(center, zoom): this._view?.goTo({ center, zoom }).
goTo(v, center, zoom) ==
    IF v = NoView
    THEN [calls |-> <<>>, result |-> Undef]
    ELSE [calls  |-> <<[fn |-> "goTo", view |-> v,
                        arg |-> [center |-> center, zoom |-> ZoomOr(zoom)]]>>,
          result |-> "promise"]

\* clearGraphics(): this._view?.graphics.removeAll().  The collections after
\* the call and the calls made on the view.
clearGraphics(v, gs) ==
    IF v = NoView THEN [graphics |-> gs, calls |-> <<>>]
    ELSE [graphics |-> [gs EXCEPT ![v] = <<>>],
          calls    |-> <<[fn |-> "graphics.removeAll", view |-> v,
                          arg |-> [none |-> TRUE]]>>]

\* title = 'Point'
TitleOr(title) == IF title = Undef THEN "Point" ELSE title

\* new Graphic({...}) of dropMarker.
MakeGraphic(lon, lat, title) ==
    [geometry      |-> [type |-> "point", longitude |-> lon, latitude |-> lat],
     symbol        |-> [type |-> "simple-marker", size |-> 10],
     attributes    |-> [title |-> TitleOr(title), lon |-> lon, lat |-> lat],
     popupTemplate |-> [title |-> "{title}", content |-> "Lon: {lon}<br>Lat: {lat}"]]

dropMarkerRollback(v, gs, pp, lon, lat, title) ==
    IF v = NoView
    THEN [graphics |-> gs, popup |-> pp, calls |-> <<>>, threw |-> FALSE]
    ELSE LET g   == MakeGraphic(lon, lat, title)
             add == [fn |-> "graphics.add", view |-> v, arg |-> [graphic |-> g]]
             opt == [features |-> <<g>>, location |-> g.geometry]
         IN  IF HasPopup(v)
             THEN [graphics |-> [gs EXCEPT ![v] = Append(@, g)],
                   popup    |-> [pp EXCEPT ![v] = <<opt>>],
                   calls    |-> <<add, [fn |-> "popup.open", view |-> v, arg |-> opt]>>,
                   threw    |-> FALSE]
             ELSE [graphics |-> gs, popup |-> pp,
                   calls    |-> <<add, [fn |-> "graphics.remove", view |-> v,
                                        arg |-> [graphic |-> g]]>>,
                   threw    |-> TRUE]

dropMarkerPopupFirst(v, gs, pp, lon, lat, title) ==
    IF v = NoView
    THEN [graphics |-> gs, popup |-> pp, calls |-> <<>>, threw |-> FALSE]
    ELSE LET g   == MakeGraphic(lon, lat, title)
             add == [fn |-> "graphics.add", view |-> v, arg |-> [graphic |-> g]]
             opt == [features |-> <<g>>, location |-> g.geometry]
         IN  IF HasPopup(v)
             THEN [graphics |-> [gs EXCEPT ![v] = Append(@, g)],
                   popup    |-> [pp EXCEPT ![v] = <<opt>>],
                   calls    |-> <<[fn |-> "popup.open", view |-> v, arg |-> opt], add>>,
                   threw    |-> FALSE]
             ELSE [graphics |-> gs, popup |-> pp, calls |-> <<>>, threw |-> TRUE]

\* dropMarker(lon, lat, title): the graphics collections, the popups, the
\* calls made on the view and whether the call threw.  view.popup!.open
\* dereferences the popup without a check: a view without one throws a
\* TypeError after the graphic has been added.
dropMarker(v, gs, pp, lon, lat, title) ==
    IF v = NoView
    THEN [graphics |-> gs, popup |-> pp, calls |-> <<>>, threw |-> FALSE]
    ELSE LET g   == MakeGraphic(lon, lat, title)
             gs1 == [gs EXCEPT ![v] = Append(@, g)]
             add == [fn |-> "graphics.add", view |-> v, arg |-> [graphic |-> g]]
             opt == [features |-> <<g>>, location |-> g.geometry]
         IN  IF HasPopup(v)
             THEN [graphics |-> gs1,
                   popup    |-> [pp EXCEPT ![v] = <<opt>>],
                   calls    |-> <<add, [fn |-> "popup.open", view |-> v, arg |-> opt]>>,
                   threw    |-> FALSE]
             ELSE [graphics |-> gs1, popup |-> pp, calls |-> <<add>>, threw |-> TRUE]

\* ============================================================= App
\* event.detail?.view and event.target?.view
DetailView(event) == IF event.detail.present THEN event.detail.view ELSE NoView
TargetView(event) == IF event.target.present THEN event.target.view ELSE NoView

ExtractViewTargetFirst(event) ==
    IF TargetView(event) # NoView THEN TargetView(event) ELSE DetailView(event)

\* (event as any)?.detail?.view ?? (event.target as any)?.view
ExtractView(event) ==
    LET a == DetailView(event)
        b == TargetView(event)
    IN  IF a # NoView THEN a ELSE b

ViewMissingNever(v) == FALSE

\* if (!view)
ViewMissing(v) == v = NoView

NoArgs == [detailView |-> NoView, targetView |-> NoView, view |-> NoView,
           reason |-> Undef, center |-> <<>>, zoom |-> <<>>,
           lon |-> 0, lat |-> 0, title |-> Undef]

Outcome(op, args, calls, result, threw) ==
    [op |-> op, args |-> args, calls |-> calls, ran |-> <<>>,
     result |-> result, threw |-> threw]

\* A call the handler makes, in the order it makes it: on the service (with
\* the view the service holds when the call starts, or for setView the view
\* passed) or on the timer queue.
ServiceCall(fn, v) == [fn |-> fn, view |-> v, arg |-> [none |-> TRUE]]

ViewReadyEffectHeaderFirst(event) ==
    LET v == ExtractView(event)
    IN  IF ViewMissing(v)
        THEN [_view |-> _view, navLogo |-> navLogo, loader |-> loader, log |-> log,
              subs |-> subs, timers |-> timers, warned |-> TRUE, calls |-> <<>>]
        ELSE LET logo   == updateHeaderFromPortalItem(_view, navLogo)
                 ss     == IF _view = NoView THEN Append(subs, [view |-> v, calls |-> 0])
                           ELSE hideLoaderOnFirstLayerCreate(_view, subs).subs
                 stored == setView(_view, v)
                 hl     == hideLoader(loader, log, "view ready")
                 ts     == Append(timers, [delay  |-> TimeoutMs,
                                           reason |-> "timeout fallback"])
             IN  [_view |-> stored, navLogo |-> logo, loader |-> hl.loader,
                  log |-> hl.log, subs |-> ss, timers |-> ts, warned |-> FALSE,
                  calls |-> <<ServiceCall("updateHeaderFromPortalItem", _view),
                              ServiceCall("hideLoaderOnFirstLayerCreate", _view),
                              ServiceCall("setView", v),
                              ServiceCall("hideLoader", stored),
                              ServiceCall("setTimeout", stored)>>]

ViewReadyEffectTimerIfVisible(event) ==
    LET v == ExtractView(event)
    IN  IF ViewMissing(v)
        THEN [_view |-> _view, navLogo |-> navLogo, loader |-> loader, log |-> log,
              subs |-> subs, timers |-> timers, warned |-> TRUE, calls |-> <<>>]
        ELSE LET stored == setView(_view, v)
                 logo   == updateHeaderFromPortalItem(stored, navLogo)
                 hl     == hideLoader(loader, log, "view ready")
                 ss     == hideLoaderOnFirstLayerCreate(stored, subs).subs
                 ts     == IF hl.loader.hidden THEN timers
                           ELSE Append(timers, [delay  |-> TimeoutMs,
                                                reason |-> "timeout fallback"])
             IN  [_view |-> stored, navLogo |-> logo, loader |-> hl.loader,
                  log |-> hl.log, subs |-> ss, timers |-> ts, warned |-> FALSE,
                  calls |-> <<ServiceCall("setView", v),
                              ServiceCall("updateHeaderFromPortalItem", stored),
                              ServiceCall("hideLoader", stored),
                              ServiceCall("hideLoaderOnFirstLayerCreate", stored),
                              ServiceCall("setTimeout", stored)>>]

\* The state arcgisViewReadyChange(event) leaves behind.
ViewReadyEffect(event) ==
    LET v == ExtractView(event)
    IN  IF ViewMissing(v)
        THEN [_view |-> _view, navLogo |-> navLogo, loader |-> loader, log |-> log,
              subs |-> subs, timers |-> timers, warned |-> TRUE, calls |-> <<>>]
        ELSE LET stored == setView(_view, v)
                 logo   == updateHeaderFromPortalItem(stored, navLogo)
                 hl     == hideLoader(loader, log, "view ready")
                 ss     == hideLoaderOnFirstLayerCreate(stored, subs).subs
                 ts     == Append(timers, [delay  |-> TimeoutMs,
                                           reason |-> "timeout fallback"])
             IN  [_view |-> stored, navLogo |-> logo, loader |-> hl.loader,
                  log |-> hl.log, subs |-> ss, timers |-> ts, warned |-> FALSE,
                  calls |-> <<ServiceCall("setView", v),
                              ServiceCall("updateHeaderFromPortalItem", stored),
                              ServiceCall("hideLoader", stored),
                              ServiceCall("hideLoaderOnFirstLayerCreate", stored),
                              ServiceCall("setTimeout", stored)>>]

\* <arcgis-map> delivers arcgisViewReadyChange.
ArcgisViewReadyChange(event) ==
    LET e == ViewReadyEffect(event)
    IN  /\ Len(e.subs) <= MaxSubs
        /\ Len(e.timers) > Len(timers) => accepted < MaxAccepted
        /\ _view'    = e._view
        /\ navLogo'  = e.navLogo
        /\ loader'   = e.loader
        /\ log'      = e.log
        /\ subs'     = e.subs
        /\ timers'   = e.timers
        /\ accepted' = IF e.warned THEN accepted ELSE accepted + 1
        /\ last'     = Outcome("arcgisViewReadyChange",
                               [NoArgs EXCEPT !.detailView = DetailView(event),
                                              !.targetView = TargetView(event)],
                               e.calls, IF e.warned THEN "warned" ELSE Undef, FALSE)
        /\ UNCHANGED <<graphics, popup, timersFired>>

\* ------------------------------------------ the service's public methods
\* setView(view), called on the service directly.  The parameter is
\* declared a MapView, but the method checks nothing and the declaration is
\* gone at run time: whatever is passed is stored, undefined included.
SetView(v) ==
    /\ _view' = setView(_view, v)
    /\ last'  = Outcome("setView", [NoArgs EXCEPT !.view = v], <<>>, Undef, FALSE)
    /\ UNCHANGED <<navLogo, loader, log, graphics, popup, subs, timers,
                   timersFired, accepted>>

UpdateHeaderFromPortalItem ==
    /\ navLogo' = updateHeaderFromPortalItem(_view, navLogo)
    /\ last'    = Outcome("updateHeaderFromPortalItem", NoArgs, <<>>, Undef, FALSE)
    /\ UNCHANGED <<_view, loader, log, graphics, popup, subs, timers,
                   timersFired, accepted>>

HideLoader(reason) ==
    LET r == hideLoader(loader, log, reason)
    IN  /\ loader' = r.loader
        /\ log'    = r.log
        /\ last'   = Outcome("hideLoader", [NoArgs EXCEPT !.reason = reason],
                             <<>>, Undef, FALSE)
        /\ UNCHANGED <<_view, navLogo, graphics, popup, subs, timers,
                       timersFired, accepted>>

HideLoaderOnFirstLayerCreate ==
    LET r == hideLoaderOnFirstLayerCreate(_view, subs)
    IN  /\ Len(r.subs) <= MaxSubs
        /\ subs' = r.subs
        /\ last' = Outcome("hideLoaderOnFirstLayerCreate", NoArgs, r.calls, Undef, FALSE)
        /\ UNCHANGED <<_view, navLogo, loader, log, graphics, popup, timers,
                       timersFired, accepted>>

GoTo(center, zoom) ==
    LET r == goTo(_view, center, zoom)
    IN  /\ last' = Outcome("goTo", [NoArgs EXCEPT !.center = center, !.zoom = zoom],
                           r.calls, r.result, FALSE)
        /\ UNCHANGED <<_view, navLogo, loader, log, graphics, popup, subs, timers,
                       timersFired, accepted>>

ClearGraphics ==
    LET r == clearGraphics(_view, graphics)
    IN  /\ graphics' = r.graphics
        /\ last'     = Outcome("clearGraphics", NoArgs, r.calls, Undef, FALSE)
        /\ UNCHANGED <<_view, navLogo, loader, log, popup, subs, timers,
                       timersFired, accepted>>

TotalGraphics(gs) ==
    Len(gs[1]) + Len(gs[2]) + Len(gs[3]) + Len(gs[4])

DropMarker(lon, lat, title) ==
    LET r == dropMarker(_view, graphics, popup, lon, lat, title)
    IN  /\ TotalGraphics(r.graphics) <= MaxGraphics
        /\ graphics' = r.graphics
        /\ popup'    = r.popup
        /\ last'     = Outcome("dropMarker",
                               [NoArgs EXCEPT !.lon = lon, !.lat = lat, !.title = title],
                               r.calls, Undef, r.threw)
        /\ UNCHANGED <<_view, navLogo, loader, log, subs, timers,
                       timersFired, accepted>>

\* ------------------------------------------------------ the environment
\* The view h emits layerview-create.
LayerViewCreate(h) ==
    LET st == Emit(h, subs, [subs |-> <<>>, ran |-> <<>>, loader |-> loader, log |-> log])
    IN  /\ \E i \in 1..Len(subs) : subs[i].view = h
        /\ subs'   = st.subs
        /\ loader' = st.loader
        /\ log'    = st.log
        /\ last'   = [Outcome("layerview-create", [NoArgs EXCEPT !.view = h],
                              <<>>, Undef, FALSE) EXCEPT !.ran = st.ran]
        /\ UNCHANGED <<_view, navLogo, graphics, popup, timers, timersFired, accepted>>

TimerFireNoHide ==
    /\ timers # <<>>
    /\ timers'      = Tail(timers)
    /\ timersFired' = timersFired + 1
    /\ last'        = Outcome("timeout", NoArgs, <<>>, Undef, FALSE)
    /\ UNCHANGED <<_view, navLogo, loader, log, graphics, popup, subs, accepted>>

\* The oldest pending timer runs: () => this.mapSvc.hideLoader('timeout fallback').
TimerFire ==
    /\ timers # <<>>
    /\ LET r == hideLoader(loader, log, Head(timers).reason)
       IN  /\ loader' = r.loader
           /\ log'    = r.log
    /\ timers'      = Tail(timers)
    /\ timersFired' = timersFired + 1
    /\ last'        = Outcome("timeout", NoArgs, <<>>, Undef, FALSE)
    /\ UNCHANGED <<_view, navLogo, graphics, popup, subs, accepted>>

\* The page renders <calcite-navigation-logo>.
RenderLogo ==
    /\ ~navLogo.present
    /\ navLogo' = FreshLogo
    /\ last'    = Outcome("render-logo", NoArgs, <<>>, Undef, FALSE)
    /\ UNCHANGED <<_view, loader, log, graphics, popup, subs, timers,
                   timersFired, accepted>>

\* The page renders <calcite-loader>.
RenderLoader ==
    /\ ~loader.present
    /\ loader' = FreshLoader
    /\ last'   = Outcome("render-loader", NoArgs, <<>>, Undef, FALSE)
    /\ UNCHANGED <<_view, navLogo, log, graphics, popup, subs, timers,
                   timersFired, accepted>>

Init ==
    /\ _view       = NoView
    /\ navLogo     = AbsentLogo
    /\ loader      = AbsentLoader
    /\ log         = <<>>
    /\ graphics    = [h \in Handles |-> <<>>]
    /\ popup       = [h \in Handles |-> <<>>]
    /\ subs        = <<>>
    /\ timers      = <<>>
    /\ timersFired = 0
    /\ accepted    = 0
    /\ last        = Outcome("init", NoArgs, <<>>, Undef, FALSE)

Next ==
    \/ \E event \in Events : ArcgisViewReadyChange(event)
    \/ \E v \in Views : SetView(v)
    \/ UpdateHeaderFromPortalItem
    \/ \E reason \in Reasons \cup {Undef} : HideLoader(reason)
    \/ HideLoaderOnFirstLayerCreate
    \/ \E center \in Centers, zoom \in {<<z>> : z \in Zooms} \cup {<<>>} : GoTo(center, zoom)
    \/ ClearGraphics
    \/ \E lon \in Lons, lat \in Lats, title \in Titles \cup {Undef} : DropMarker(lon, lat, title)
    \/ \E h \in Handles : LayerViewCreate(h)
    \/ TimerFire
    \/ RenderLogo
    \/ RenderLoader

Spec == Init /\ [][Next]_vars

\* The page: the handler and the service calls that write the two Calcite
\* elements, with the elements rendered at any moment.
NextPage ==
    \/ \E event \in Events : ArcgisViewReadyChange(event)
    \/ \E v \in Views : SetView(v)
    \/ UpdateHeaderFromPortalItem
    \/ \E reason \in Reasons \cup {Undef} : HideLoader(reason)
    \/ RenderLogo
    \/ RenderLoader

SpecPage == Init /\ [][NextPage]_vars

\* The view's lifecycle: the stored view, the loader and its three
\* dismissal paths (immediate, first layer-create event, timeout).
NextLifecycle ==
    \/ \E event \in Events : ArcgisViewReadyChange(event)
    \/ \E v \in Views : SetView(v)
    \/ \E reason \in Reasons \cup {Undef} : HideLoader(reason)
    \/ HideLoaderOnFirstLayerCreate
    \/ \E h \in Handles : LayerViewCreate(h)
    \/ TimerFire
    \/ RenderLoader

SpecLifecycle == Init /\ [][NextLifecycle]_vars

\* What setView is given where the utilities are exercised: undefined, a
\* view with a popup and a view without.
UtilityViews == {NoView, 1, 2}

\* The utilities that act on the stored view: navigation, graphics, popup
\* and the layer-create registration, before a view is stored and with
\* views stored and unset through setView.
NextUtilities ==
    \/ \E v \in UtilityViews : SetView(v)
    \/ HideLoaderOnFirstLayerCreate
    \/ \E center \in Centers, zoom \in {<<z>> : z \in Zooms} \cup {<<>>} : GoTo(center, zoom)
    \/ ClearGraphics
    \/ \E lon \in Lons, lat \in Lats, title \in Titles \cup {Undef} : DropMarker(lon, lat, title)
    \/ RenderLoader

SpecUtilities == Init /\ [][NextUtilities]_vars

\* The fallback dismissal: the handler, a view stored on the service
\* directly, the callbacks the handler registers and the page rendering the
\* loader.  The browser's timer queue runs every callback scheduled with
\* setTimeout once its delay has passed, hence the weak fairness of
\* TimerFire; nothing obliges the map to deliver a notification or a
\* layer-create event.
NextFallback ==
    \/ \E event \in Events : ArcgisViewReadyChange(event)
    \/ \E v \in Views : SetView(v)
    \/ \E h \in Handles : LayerViewCreate(h)
    \/ TimerFire
    \/ RenderLoader

SpecFallback == Init /\ [][NextFallback]_vars /\ WF_vars(TimerFire)

\* ================================================================ claims
IsReady(l)   == l.op = "arcgisViewReadyChange"
CarriesNone(l) == l.args.detailView = NoView /\ l.args.targetView = NoView

\* C1: a ready notification with no view at detail.view and none at
\* target.view returns without throwing and changes nothing: the stored
\* view, the header, the loader, the console, the listeners, the timers
\* and the views' graphics and popups all stay as they were.
C1_NoViewNoMutation ==
    [][ (IsReady(last') /\ CarriesNone(last'))
          => /\ UNCHANGED <<_view, navLogo, loader, log, graphics, popup,
                            subs, timers, timersFired, accepted>>
             /\ ~last'.threw ]_vars

C1_Witness ==
    /\ IsReady(last) /\ CarriesNone(last)
    /\ _view # NoView /\ timers # <<>> /\ subs # <<>>

\* C2: the view adopted by arcgisViewReadyChange is detail.view when that
\* is present and target.view otherwise; when both are present it is
\* detail.view.
C2_PathFallback ==
    [][ IsReady(last')
          => /\ last'.args.detailView # NoView => _view' = last'.args.detailView
             /\ (last'.args.detailView = NoView /\ last'.args.targetView # NoView)
                    => _view' = last'.args.targetView ]_vars

C2_Witness ==
    /\ IsReady(last)
    /\ last.args.detailView = NoView
    /\ last.args.targetView = 2
    /\ _view = 2

\* C3: after ready notifications that carry views the getter returns the
\* view of the most recent one: every such notification, like every setView
\* called on the service directly, overwrites the stored view with the one it
\* is given, and no other step changes what the getter returns, so no
\* earlier view comes back.
C3_LastWriterWins ==
    [][ IF IsReady(last') /\ ~CarriesNone(last')
        THEN view' = IF last'.args.detailView # NoView THEN last'.args.detailView
                                                       ELSE last'.args.targetView
        ELSE IF last'.op = "setView"
        THEN view' = last'.args.view
        ELSE view' = view ]_vars

C3_Witness ==
    /\ IsReady(last) /\ accepted = 2 /\ Len(subs) = 2
    /\ subs[1].view # subs[2].view
    /\ view = subs[2].view

IsVisible(ld) == ld.present /\ ~ld.hidden

\* C4: hideLoader is idempotent.  On a visible loader it sets the hidden
\* flag and logs once; on an absent or hidden loader it changes nothing;
\* applied again to the state it leaves it changes nothing, and a second
\* call right after a first is a no-op.
C4_HideLoaderIdempotent ==
    [][ last'.op = "hideLoader"
          => /\ IsVisible(loader) => /\ loader' = [loader EXCEPT !.hidden = TRUE]
                                      /\ Len(log') = Len(log) + 1
             /\ ~IsVisible(loader) => UNCHANGED <<loader, log>>
             /\ last.op = "hideLoader" => UNCHANGED <<loader, log>>
             /\ hideLoader(loader', log', last'.args.reason)
                    = [loader |-> loader', log |-> log'] ]_vars

C4_Witness ==
    /\ last.op = "hideLoader"
    /\ loader.present /\ loader.hidden
    /\ log = <<"manual">>

\* The portal item at the end of the chain view?.map?.portalItem.
ItemOfView(v) ==
    IF v # NoView /\ MapOf(v).present THEN MapOf(v).portalItem ELSE NoItem

\* C5: updateHeaderFromPortalItem never writes part of the header: a call
\* leaves the element with all five fields written from the portal item or
\* exactly as it was, and it writes nothing when the stored view, its map,
\* its portal item or the element is absent.
C5_HeaderAllOrNothing ==
    [][ last'.op = "updateHeaderFromPortalItem"
          => /\ \/ navLogo' = navLogo
                \/ /\ navLogo'.heading     = ItemOfView(_view).title
                   /\ navLogo'.description # Undef
                   /\ navLogo'.thumbnail   = ItemOfView(_view).thumbnailUrl
                   /\ navLogo'.href        = ItemOfView(_view).itemPageUrl
                   /\ navLogo'.label       = "Thumbnail of map"
             /\ (~ItemOfView(_view).present \/ ~navLogo.present)
                    => navLogo' = navLogo ]_vars

C5_Witness ==
    /\ last.op = "updateHeaderFromPortalItem"
    /\ _view = 3
    /\ navLogo = FreshLogo

\* C6: with a view whose map has a portal item stored and the header
\* element present, updateHeaderFromPortalItem leaves heading = title,
\* description = snippet (the empty string when the snippet is absent),
\* thumbnail = thumbnail URL, href = item page URL and label = "Thumbnail of
\* map"; the item {Parks, no snippet, t.png, p.html} gives the header
\* {Parks, "", t.png, p.html, Thumbnail of map}.
C6_HeaderFromItem ==
    (last.op = "updateHeaderFromPortalItem" /\ navLogo.present
        /\ ItemOfView(_view).present)
      => /\ navLogo.heading     = ItemOfView(_view).title
         /\ navLogo.description = IF ItemOfView(_view).snippet = Undef
                                  THEN "" ELSE ItemOfView(_view).snippet
         /\ navLogo.thumbnail   = ItemOfView(_view).thumbnailUrl
         /\ navLogo.href        = ItemOfView(_view).itemPageUrl
         /\ navLogo.label       = "Thumbnail of map"
         /\ _view = 1 => navLogo = [present |-> TRUE, heading |-> "Parks",
                                    description |-> "", thumbnail |-> "t.png",
                                    href |-> "p.html", label |-> "Thumbnail of map"]

C6_Witness ==
    /\ last.op = "updateHeaderFromPortalItem"
    /\ _view = 1
    /\ navLogo.present
    /\ navLogo.heading = "Parks"
    /\ navLogo.description = ""

\* C7, as claimed: with no view stored, or with its target element missing,
\* updateHeaderFromPortalItem and hideLoader both leave the header fields
\* and the loader's hidden flag unchanged.
C7_Original ==
    [][ (\/ last'.op = "updateHeaderFromPortalItem"
                /\ (_view = NoView \/ ~navLogo.present)
         \/ last'.op = "hideLoader"
                /\ (_view = NoView \/ ~loader.present))
          => /\ navLogo' = navLogo
             /\ loader'.hidden = loader.hidden ]_vars

\* C7, amended: updateHeaderFromPortalItem is a no-op, not an error, when
\* no view is stored or the header element is missing, and hideLoader is a
\* no-op, not an error, when the loader element is missing; hideLoader does
\* not read the stored view, and with no view stored it still hides a
\* visible loader.
C7_AbsentTargetNoOp ==
    [][ /\ (last'.op = "updateHeaderFromPortalItem"
                /\ (_view = NoView \/ ~navLogo.present))
            => (UNCHANGED <<navLogo, loader, log>> /\ ~last'.threw)
        /\ (last'.op = "hideLoader" /\ ~loader.present)
            => (UNCHANGED <<navLogo, loader, log>> /\ ~last'.threw)
        /\ (last'.op = "hideLoader" /\ _view = NoView /\ IsVisible(loader))
            => (loader'.hidden /\ navLogo' = navLogo) ]_vars

C7_Witness ==
    /\ last.op = "hideLoader"
    /\ _view # NoView
    /\ ~loader.present
    /\ navLogo.present

\* C8: while no view is stored every operation that needs one is a silent
\* no-op: goTo returns undefined, none of goTo, clearGraphics, dropMarker
\* and hideLoaderOnFirstLayerCreate throws or calls into a view, and the
\* stored view, the graphics, the popups, the listeners and the loader are
\* left unchanged.
C8_UnsetNoOp ==
    [][ (_view = NoView
            /\ last'.op \in {"goTo", "clearGraphics", "dropMarker",
                             "hideLoaderOnFirstLayerCreate"})
          => /\ UNCHANGED <<_view, graphics, popup, subs, loader, log,
                            navLogo, timers>>
             /\ ~last'.threw
             /\ last'.calls = <<>>
             /\ last'.op = "goTo" => last'.result = Undef ]_vars

C8_Witness ==
    /\ last.op = "goTo"
    /\ last.args.center = <<10, 20>>
    /\ last.args.zoom = <<5>>
    /\ last.result = Undef
    /\ _view = NoView
    /\ loader.present

\* What one dropMarker step adds to the stored view's collection.
Added == graphics'[_view][Len(graphics'[_view])]

GraphicAppended ==
    /\ Len(graphics'[_view]) = Len(graphics[_view]) + 1
    /\ SubSeq(graphics'[_view], 1, Len(graphics[_view])) = graphics[_view]
    /\ \A h \in Handles \ {_view} : graphics'[h] = graphics[h]
    /\ Added.attributes = [title |-> IF last'.args.title = Undef THEN "Point"
                                     ELSE last'.args.title,
                           lon   |-> last'.args.lon,
                           lat   |-> last'.args.lat]
    /\ Added.geometry = [type |-> "point", longitude |-> last'.args.lon,
                         latitude |-> last'.args.lat]

PopupOpenedAfterAdd ==
    /\ Len(last'.calls) = 2
    /\ last'.calls[1].fn = "graphics.add"
    /\ last'.calls[1].view = _view
    /\ last'.calls[1].arg.graphic = Added
    /\ last'.calls[2].fn = "popup.open"
    /\ last'.calls[2].view = _view
    /\ last'.calls[2].arg.features = <<Added>>
    /\ last'.calls[2].arg.location = Added.geometry
    /\ popup'[_view] = <<last'.calls[2].arg>>
    /\ ~last'.threw

\* C9: with a view stored, every dropMarker(lon, lat, title) grows that
\* view's graphics by exactly one graphic tagged {title, lon, lat} and then
\* opens the view's popup with that graphic and its point geometry, the add
\* coming first.
C9_DropMarker ==
    [][ (last'.op = "dropMarker" /\ _view # NoView)
          => (GraphicAppended /\ PopupOpenedAfterAdd) ]_vars

ListenersOn(h, ss) == {i \in 1..Len(ss) : ss[i].view = h}

\* C10: every hideLoaderOnFirstLayerCreate with a view stored registers one
\* more listener on that view; at the view's next layer-create event each
\* listener registered on it calls hideLoader("layerview-create") once and
\* is removed, so no listener ever runs a second time, and two calls give
\* two listeners that each run once.
C10_ListenerRunsOnce ==
    [][ /\ (last'.op = "hideLoaderOnFirstLayerCreate" /\ _view # NoView)
            => subs' = Append(subs, [view |-> _view, calls |-> 0])
        /\ last'.op = "layerview-create"
            => /\ Len(last'.ran) = Cardinality(ListenersOn(last'.args.view, subs))
               /\ \A i \in 1..Len(last'.ran) :
                      /\ last'.ran[i].view = last'.args.view
                      /\ last'.ran[i].calls = 1
               /\ ListenersOn(last'.args.view, subs') = {}
               /\ Len(subs') = Len(subs) - Len(last'.ran)
               /\ IsVisible(loader)
                      => /\ loader'.hidden
                         /\ log' = Append(log, "layerview-create")
               /\ ~IsVisible(loader) => UNCHANGED <<loader, log>>
        /\ \A i \in 1..Len(subs') : subs'[i].calls = 0 ]_vars

C10_Witness ==
    /\ last.op = "layerview-create"
    /\ Len(last.ran) = 2
    /\ subs = <<>>
    /\ log = <<"layerview-create">>

\* C11: the loader's visibility changes one way only: under ready
\* notifications, service calls, layer-create events and timers, a loader
\* whose hidden flag is set stays present with the flag set.
C11_LoaderStaysHidden ==
    [][ loader.hidden => (loader'.present /\ loader'.hidden) ]_vars

C11_Witness ==
    /\ loader.hidden
    /\ log = <<"layerview-create">>
    /\ last.op = "hideLoader"
    /\ accepted = 2
    /\ timersFired = 2

\* The view a ready notification carries, as the handler takes it.
Carried(l) == IF l.args.detailView # NoView THEN l.args.detailView
                                            ELSE l.args.targetView

\* The header a call of updateHeaderFromPortalItem leaves for view v.
HeaderFor(v, logo) ==
    IF logo.present /\ ItemOfView(v).present
    THEN [present     |-> TRUE,
          heading     |-> ItemOfView(v).title,
          description |-> IF ItemOfView(v).snippet = Undef THEN ""
                          ELSE ItemOfView(v).snippet,
          thumbnail   |-> ItemOfView(v).thumbnailUrl,
          href        |-> ItemOfView(v).itemPageUrl,
          label       |-> "Thumbnail of map"]
    ELSE logo

\* C12: for a ready notification that carries a view, arcgisViewReadyChange
\* calls, in this order, setView, updateHeaderFromPortalItem,
\* hideLoader("view ready"), hideLoaderOnFirstLayerCreate and setTimeout;
\* every call after setView finds the new view stored, so the header is
\* derived from it and the listener is registered on it, not on the
\* previous view.
C12_HandlerOrder ==
    [][ (IsReady(last') /\ ~CarriesNone(last'))
          => /\ Len(last'.calls) = 5
             /\ [i \in 1..5 |-> last'.calls[i].fn]
                    = <<"setView", "updateHeaderFromPortalItem", "hideLoader",
                        "hideLoaderOnFirstLayerCreate", "setTimeout">>
             /\ \A i \in 1..5 : last'.calls[i].view = Carried(last')
             /\ _view' = Carried(last')
             /\ navLogo' = HeaderFor(Carried(last'), navLogo)
             /\ IsVisible(loader) => (loader'.hidden /\ log' = Append(log, "view ready"))
             /\ ~IsVisible(loader) => UNCHANGED <<loader, log>>
             /\ Len(subs') = Len(subs) + 1
             /\ subs'[Len(subs')].view = Carried(last')
             /\ Len(timers') = Len(timers) + 1 ]_vars

C12_Witness ==
    /\ IsReady(last)
    /\ accepted = 2
    /\ _view = 2
    /\ navLogo.heading = "Roads"
    /\ Len(subs) = 2 /\ subs[1].view = 1 /\ subs[2].view = 2
    /\ log = <<"view ready">>

\* C13: every ready notification that carries a view schedules exactly one
\* timeout-fallback callback, whether or not the loader is already hidden,
\* and nothing cancels it: after n such notifications the callbacks pending
\* and the callbacks run number n together, each pending one being the
\* 5000 ms "timeout fallback" dismissal.
C13_OneTimerPerNotification ==
    /\ Len(timers) + timersFired = accepted
    /\ \A i \in 1..Len(timers) :
           timers[i] = [delay |-> 5000, reason |-> "timeout fallback"]

C13_Witness ==
    /\ IsReady(last) /\ ~CarriesNone(last)
    /\ accepted = 2
    /\ timersFired = 1
    /\ Len(timers) = 1
    /\ log = <<"timeout fallback">>

\* C14: redundant dismissals are harmless in every interleaving of the
\* immediate dismissal, the layer-create callbacks and the timeout
\* callbacks of one or several notifications: the loader goes from visible
\* to hidden at most once (one console line), no dismissal throws, and the
\* loader is left as the first effective dismissal left it.
C14_DismissalsHarmless ==
    /\ Len(log) <= 1
    /\ loader.hidden <=> Len(log) = 1
    /\ loader.hidden => loader = [present |-> TRUE, hidden |-> TRUE]
    /\ ~last.threw

C14_Witness ==
    /\ accepted = 2
    /\ timersFired = 2
    /\ subs = <<>>
    /\ last.op = "layerview-create"
    /\ Len(last.ran) = 2
    /\ log = <<"view ready">>
    /\ loader.hidden

\* C15: every invocation of arcgisViewReadyChange runs its whole sequence
\* against the view it received: after a notification carrying a view h
\* with portal item metadata, the header element being present, the stored
\* view is h, the header shows h's metadata, one new listener is registered
\* on h and one new timeout callback is pending, whatever earlier
\* invocations did.
C15_FullRerun ==
    [][ (IsReady(last') /\ ~CarriesNone(last')
            /\ ItemOfView(Carried(last')).present /\ navLogo.present)
          => /\ view' = Carried(last')
             /\ navLogo'.heading   = ItemOfView(view').title
             /\ navLogo'.thumbnail = ItemOfView(view').thumbnailUrl
             /\ navLogo'.href      = ItemOfView(view').itemPageUrl
             /\ navLogo'.description = IF ItemOfView(view').snippet = Undef THEN ""
                                        ELSE ItemOfView(view').snippet
             /\ navLogo'.label     = "Thumbnail of map"
             /\ subs'   = Append(subs, [view |-> view', calls |-> 0])
             /\ timers' = Append(timers, [delay |-> 5000, reason |-> "timeout fallback"])
             /\ accepted' = accepted + 1 ]_vars

C15_Witness ==
    /\ IsReady(last) /\ Carried(last) = 1
    /\ accepted = 2
    /\ view = 1
    /\ navLogo.heading = "Parks"
    /\ subs = <<[view |-> 2, calls |-> 0], [view |-> 1, calls |-> 0]>>
    /\ Len(timers) = 2

\* C16: dropMarker does not roll back: adding the marker and opening the
\* popup are separate effects, and when the popup cannot be opened (the
\* view has no popup) the call throws after the add, leaving the graphic
\* it added as the last one of the view's collection and every popup as it
\* was.
C16_NoRollback ==
    (last.op = "dropMarker" /\ last.threw)
      => /\ _view # NoView
         /\ ~HasPopup(_view)
         /\ graphics[_view] # <<>>
         /\ graphics[_view][Len(graphics[_view])].attributes
                = [title |-> IF last.args.title = Undef THEN "Point"
                             ELSE last.args.title,
                   lon   |-> last.args.lon,
                   lat   |-> last.args.lat]
         /\ last.calls = <<[fn |-> "graphics.add", view |-> _view,
                             arg |-> [graphic |-> graphics[_view][Len(graphics[_view])]]]>>
         /\ popup[_view] = <<>>

C16_Witness ==
    /\ last.op = "dropMarker" /\ last.threw
    /\ _view = 2
    /\ Len(graphics[2]) = 2
    /\ graphics[2][2].attributes.title = "Camp"
    /\ popup[2] = <<>>

\* C17: a layer-create listener stays bound to the view that was stored
\* when hideLoaderOnFirstLayerCreate registered it.  Storing another view
\* tears nothing down: the listeners registered before a notification are
\* all still registered after it, and a layer-create event on a view that
\* is no longer the stored one still runs its listeners, which hide a
\* visible loader.
C17_OldListenerLive ==
    [][ /\ (IsReady(last') \/ last'.op = "hideLoaderOnFirstLayerCreate")
            => /\ Len(subs') >= Len(subs)
               /\ SubSeq(subs', 1, Len(subs)) = subs
        /\ (last'.op = "layerview-create" /\ last'.args.view # _view)
            => /\ last'.ran # <<>>
               /\ \A i \in 1..Len(last'.ran) : last'.ran[i].view = last'.args.view
               /\ IsVisible(loader)
                      => (loader'.hidden /\ log' = Append(log, "layerview-create")) ]_vars

C17_Witness ==
    /\ last.op = "layerview-create"
    /\ last.args.view = 1
    /\ _view = 2
    /\ accepted = 2
    /\ loader.hidden
    /\ log = <<"layerview-create">>
    /\ subs = <<[view |-> 2, calls |-> 0]>>

\* C18: the header is never cleared.  No step unsets a header field that
\* has been written, and a notification that stores a view without portal
\* item metadata leaves the header as the previous view's metadata wrote
\* it, while the getter already returns the new view.
C18_HeaderNeverCleared ==
    [][ /\ \A f \in {"heading", "description", "thumbnail", "href", "label"} :
               navLogo[f] # Undef => navLogo'[f] # Undef
        /\ navLogo.present => navLogo'.present
        /\ (IsReady(last') /\ ~CarriesNone(last')
                /\ ~ItemOfView(Carried(last')).present)
            => (navLogo' = navLogo /\ view' = Carried(last')) ]_vars

C18_Witness ==
    /\ IsReady(last) /\ Carried(last) = 4
    /\ view = 4
    /\ navLogo.heading = "Roads"
    /\ navLogo.description = "Road map"
    /\ subs = <<[view |-> 2, calls |-> 0], [view |-> 4, calls |-> 0]>>

C20_FallbackEventuallyHides ==
    /\ \A n \in 1..MaxAccepted : (accepted >= n) ~> (timersFired >= n)
    /\ (loader.present /\ timers # <<>>) ~> loader.hidden
    /\ [][ (~loader.hidden /\ loader'.hidden)
              => /\ last'.op \in {"arcgisViewReadyChange", "layerview-create", "timeout"}
                 /\ last'.op = "timeout" => log' = <<"timeout fallback">> ]_vars

C20_Witness ==
    /\ last.op = "timeout"
    /\ loader.hidden
    /\ log = <<"timeout fallback">>
    /\ accepted = 1
    /\ subs = <<[view |-> 3, calls |-> 0]>>

====
